---- MODULE Spec2Model ----
(***************************************************************************)
(* Model of client/socket_client.py: SocketClient, a newline-delimited     *)
(* UTF-8 message transport over one stream socket.  Caller threads invoke  *)
(* send_data, receive_data and close on one shared instance; the peer and  *)
(* the kernel are the environment.                                         *)
(***************************************************************************)
EXTENDS Integers, Sequences, FiniteSets, TLC

(* ------------------------------ bounds --------------------------------- *)
\* number of caller threads sharing the instance
NumThreads == 2
\* total number of send_data / receive_data / close calls started
MaxCalls == 2
\* total number of bytes the peer puts on the inbound stream
MaxStream == 2
\* longest string handed to send_data, not counting a final newline
MaxData == 1
\* the most lines the peer sends whole
MaxLines == 2

(* --------------------------- program constants ------------------------- *)
\* b"\n" / "\n": the delimiter
NL == 10
\* the bufsize argument of self._sock.recv(4096)
RecvSize == 4096

(* ------------------------------ alphabets ------------------------------ *)
\* Bytes the peer may send: LF, 'A', and the two bytes of U+00E9 (0xC3 0xA9),
\* which alone or in the wrong order are not valid UTF-8.
PeerBytes == {NL, 65, 195, 169}
\* Code points of the strings callers send: LF, U+00E9 (two bytes in UTF-8) and
\* the lone surrogate U+D800, which str.encode("utf-8") refuses.
Chars == {NL, 233, 55296}
\* A value that is not a str, for the isinstance check.
NotStr == <<-1>>

Threads == 1..NumThreads

\* the longest payload: two bytes for each character and the delimiter
MaxPayload == 2 * MaxData + 1

Min(a, b) == IF a < b THEN a ELSE b

\* s[n:] of Python, n counted from 0
Drop(s, n) == SubSeq(s, n + 1, Len(s))
\* s[:n] of Python
Take(s, n) == SubSeq(s, 1, n)

StringsUpTo(n) == UNION {[1..k -> Chars] : k \in 0..n}
\* the arguments of send_data: every string up to MaxData, with and without a final newline
Data == StringsUpTo(MaxData) \cup {d \o <<NL>> : d \in StringsUpTo(MaxData)}

(* ----------------------------- pure functions --------------------------- *)
\* str.encode("utf-8") on code points below U+0800 and on surrogates:
\* one byte below 0x80, two bytes below 0x800, UnicodeEncodeError on a surrogate.
IsSurrogate(c) == c >= 55296 /\ c <= 57343

Encodable(s) == \A i \in 1..Len(s) : ~IsSurrogate(s[i])

RECURSIVE Encode(_)
Encode(s) ==
    IF s = <<>> THEN <<>>
    ELSE LET c == Head(s)
         IN  (IF c < 128 THEN <<c>>
              ELSE <<192 + (c \div 64), 128 + (c % 64)>>) \o Encode(Tail(s))

\* bytes.decode("utf-8") on bytes below 0xE0: an ASCII byte is one character,
\* a lead byte 0xC2..0xDF needs one continuation byte 0x80..0xBF, anything
\* else raises UnicodeDecodeError.
IsCont(b) == b >= 128 /\ b <= 191
IsLead2(b) == b >= 194 /\ b <= 223

RECURSIVE Decodable(_)
Decodable(b) ==
    IF b = <<>> THEN TRUE
    ELSE IF Head(b) < 128 THEN Decodable(Tail(b))
    ELSE IF IsLead2(Head(b)) /\ Len(b) >= 2 /\ IsCont(b[2]) THEN Decodable(Drop(b, 2))
    ELSE FALSE

RECURSIVE Decode(_)
Decode(b) ==
    IF b = <<>> THEN <<>>
    ELSE IF Head(b) < 128 THEN <<Head(b)>> \o Decode(Tail(b))
    ELSE <<(Head(b) - 192) * 64 + (b[2] - 128)>> \o Decode(Drop(b, 2))

\* str.endswith("\n")
EndsWithNL(s) == s # <<>> /\ s[Len(s)] = NL

\* bytes.find(b"\n"): index from 0 of the first delimiter, -1 when absent
Find(buf) ==
    IF \E i \in 1..Len(buf) : buf[i] = NL
    THEN (CHOOSE i \in 1..Len(buf) : buf[i] = NL /\ \A j \in 1..(i - 1) : buf[j] # NL) - 1
    ELSE -1

(* -------------------------------- state -------------------------------- *)
VARIABLES
    closed,         \* self._closed
    sock,           \* self._sock as the kernel sees it: open, shut, broken, released
    lock,           \* self._lock: 0 when free, else the thread holding it
    recv_buffer,    \* self._recv_buffer
    pc,             \* where each thread is in the call it is making
    op,             \* the call each thread made last: send, recv, close
    payload,        \* send_data: the local payload
    totalsent,      \* send_data: the local totalsent
    chunk,          \* receive_data: the local chunk
    result,         \* what each thread's last call returned or raised
    inflight,       \* bytes the peer has sent and recv has not yet returned
    peerClosed,     \* the peer has closed its end
    reads,          \* history: the non-empty chunks recv has returned, in order
    wire,           \* history: all bytes send has accepted
    hist,           \* history: the outcome of each receive_data call, in order of completion
    sentlog,        \* history: the send_data calls that returned normally (split: in several writes)
    data,           \* history: the argument of the send_data call in progress
    start,          \* history: length of wire when the send in progress took the lock
    mark,           \* history: bytes already taken out of the buffer when the receive in progress took the lock
    calls,          \* number of calls started
    closeReturned,  \* history: some close() call has returned
    tailDone,       \* history: an end-of-stream tail has been taken out of the buffer
    scope           \* each thread's with block on the instance: where it is, what its body raised

vars == <<closed, sock, lock, recv_buffer, pc, op, payload, totalsent, chunk, result,
          inflight, peerClosed, reads, wire, hist, sentlog, data, start, mark,
          calls, closeReturned, tailDone, scope>>

RECURSIVE Flat(_)
Flat(ss) == IF ss = <<>> THEN <<>> ELSE Head(ss) \o Flat(Tail(ss))

\* all bytes recv has returned
rcvd == Flat(reads)

Res(kind, val) == [kind |-> kind, val |-> val]
Raise(kind) == Res(kind, <<>>)
NoResult == Res("none", <<>>)

\* a thread that has not entered a with block on the instance
NoScope == [at |-> "out", exc |-> "none", out |-> "none"]

\* __init__ and _connect: an open, connected instance with an empty buffer
Init ==
    /\ closed = FALSE
    /\ sock = "open"
    /\ lock = 0
    /\ recv_buffer = <<>>
    /\ pc = [t \in Threads |-> "idle"]
    /\ op = [t \in Threads |-> "none"]
    /\ payload = [t \in Threads |-> <<>>]
    /\ totalsent = [t \in Threads |-> 0]
    /\ chunk = [t \in Threads |-> <<>>]
    /\ result = [t \in Threads |-> NoResult]
    /\ inflight = <<>>
    /\ peerClosed = FALSE
    /\ reads = <<>>
    /\ wire = <<>>
    /\ hist = <<>>
    /\ sentlog = <<>>
    /\ data = [t \in Threads |-> <<>>]
    /\ start = [t \in Threads |-> 0]
    /\ mark = [t \in Threads |-> 0]
    /\ calls = 0
    /\ closeReturned = FALSE
    /\ tailDone = FALSE
    /\ scope = [t \in Threads |-> NoScope]

\* a call is entered by thread t
Enter(t, o) ==
    /\ pc[t] = "idle"
    /\ calls < MaxCalls
    /\ calls' = calls + 1
    /\ op' = [op EXCEPT ![t] = o]

\* thread t leaves its call with result r
Leave(t, r) ==
    /\ pc' = [pc EXCEPT ![t] = "idle"]
    /\ result' = [result EXCEPT ![t] = r]

\* a slip: the lock is kept when the call is left
ReleaseNever(t) == UNCHANGED lock

\* leaving the with self._lock block, by return or by exception
Release(t) == lock' = 0

\* a slip: the closed check is missing
IsClosedNever == FALSE

\* lines 54, 83 and 118: if self._closed
IsClosed == closed

\* a slip: the block is entered without waiting for the lock
AcquireNoWait(t) == lock' = t

\* with self._lock: entered only when no thread holds the lock
Acquire(t) == lock = 0 /\ lock' = t

(* ------------------------------ send_data ------------------------------ *)
\* a slip: the newline is appended to every string
FramedAlways(d) == d \o <<NL>>

\* lines 61-64: one newline is appended unless the string already ends with one
Framed(d) == IF ~EndsWithNL(d) THEN d \o <<NL>> ELSE d

\* a slip: every write starts again at the first byte of the payload
UnsentFromStart(p, n) == p

\* line 71: the slice payload[totalsent:] handed to self._sock.send
Unsent(p, n) == Drop(p, n)

\* lines 54-66: the closed check, the type check, framing and encoding
StartSend(t, d) ==
    /\ Enter(t, "send")
    /\ IF IsClosed THEN
           /\ Leave(t, Raise("ClosedError"))
           /\ UNCHANGED <<payload, data>>
       ELSE IF d = NotStr THEN
           /\ Leave(t, Raise("TypeError"))
           /\ UNCHANGED <<payload, data>>
       ELSE IF ~Encodable(Framed(d)) THEN
           /\ Leave(t, Raise("EncodeError"))
           /\ UNCHANGED <<payload, data>>
       ELSE
           /\ payload' = [payload EXCEPT ![t] = Encode(Framed(d))]
           /\ data' = [data EXCEPT ![t] = d]
           /\ pc' = [pc EXCEPT ![t] = "s_lock"]
           /\ result' = [result EXCEPT ![t] = NoResult]
    /\ UNCHANGED <<closed, sock, lock, recv_buffer, totalsent, chunk, inflight, peerClosed,
                   reads, wire, hist, sentlog, start, mark, closeReturned, tailDone, scope>>

\* lines 68-69: the lock is taken and totalsent starts at 0
SendAcquire(t) ==
    /\ pc[t] = "s_lock"
    /\ Acquire(t)
    /\ totalsent' = [totalsent EXCEPT ![t] = 0]
    /\ start' = [start EXCEPT ![t] = Len(wire)]
    /\ pc' = [pc EXCEPT ![t] = "s_loop"]
    /\ UNCHANGED <<closed, sock, recv_buffer, op, payload, chunk, result, inflight,
                   peerClosed, reads, wire, hist, sentlog, data, mark, calls,
                   closeReturned, tailDone, scope>>

\* send_data is over: its locals are dead
SendEnd(t, r) ==
    /\ Leave(t, r)
    /\ Release(t)
    /\ payload' = [payload EXCEPT ![t] = <<>>]
    /\ totalsent' = [totalsent EXCEPT ![t] = 0]
    /\ data' = [data EXCEPT ![t] = <<>>]
    /\ start' = [start EXCEPT ![t] = 0]

\* lines 70-74, one iteration in which the socket accepts n >= 1 bytes, and the
\* loop test that follows it
SendWrite(t, n) ==
    /\ pc[t] = "s_loop"
    /\ sock = "open"
    /\ n >= 1 /\ n <= Len(Unsent(payload[t], totalsent[t]))
    /\ wire' = wire \o Take(Unsent(payload[t], totalsent[t]), n)
    /\ IF totalsent[t] + n < Len(payload[t]) THEN
           /\ totalsent' = [totalsent EXCEPT ![t] = totalsent[t] + n]
           /\ UNCHANGED <<lock, pc, result, payload, data, start, sentlog>>
       ELSE
           /\ SendEnd(t, Res("ok", <<>>))
           /\ sentlog' = Append(sentlog, [data |-> data[t], start |-> start[t],
                                          len |-> Len(payload[t]),
                                          frame |-> payload[t],
                                          split |-> totalsent[t] > 0])
    /\ UNCHANGED <<closed, sock, recv_buffer, op, chunk, inflight, peerClosed, reads,
                   hist, mark, calls, closeReturned, tailDone, scope>>

\* a slip: a zero-byte write ends the loop as if the payload had been sent
SendZeroReturns(t) ==
    /\ pc[t] = "s_loop"
    /\ sock = "open"
    /\ SendEnd(t, Res("ok", <<>>))
    /\ UNCHANGED <<closed, sock, recv_buffer, op, chunk, inflight, peerClosed, reads, wire,
                   hist, sentlog, mark, calls, closeReturned, tailDone, scope>>

\* a slip: a zero-byte write marks the instance closed
SendZeroCloses(t) ==
    /\ pc[t] = "s_loop"
    /\ sock = "open"
    /\ SendEnd(t, Raise("SendBroken"))
    /\ closed' = TRUE
    /\ UNCHANGED <<sock, recv_buffer, op, chunk, inflight, peerClosed, reads, wire,
                   hist, sentlog, mark, calls, closeReturned, tailDone, scope>>

\* lines 71-73: the socket reports 0 bytes sent
SendZero(t) ==
    /\ pc[t] = "s_loop"
    /\ sock = "open"
    /\ SendEnd(t, Raise("SendBroken"))
    /\ UNCHANGED <<closed, sock, recv_buffer, op, chunk, inflight, peerClosed, reads, wire,
                   hist, sentlog, mark, calls, closeReturned, tailDone, scope>>

\* line 71: self._sock.send raises: socket.timeout while the socket is open, or an
\* OSError (reset by the peer, shut down or closed by close())
SendRaise(t, e) ==
    /\ pc[t] = "s_loop"
    /\ e \in {"Timeout", "SocketError"}
    /\ sock # "open" => e = "SocketError"
    /\ SendEnd(t, Raise(e))
    /\ UNCHANGED <<closed, sock, recv_buffer, op, chunk, inflight, peerClosed, reads, wire,
                   hist, sentlog, mark, calls, closeReturned, tailDone, scope>>

(* ----------------------------- receive_data ----------------------------- *)
\* a slip: the index is tested for truth, and -1 is true
HasLineTruthy(nl) == nl # 0

\* line 90: nl_index != -1
HasLine(nl) == nl # -1

\* line 91: self._recv_buffer[:nl_index]
Line(buf, nl) == Take(buf, nl)

\* a slip: the delimiter is left at the head of the buffer
AfterLineKeepsDelimiter(buf, nl) == Drop(buf, nl)

\* line 92: self._recv_buffer[nl_index + 1:]
AfterLine(buf, nl) == Drop(buf, nl + 1)

\* a slip: bytes that are not valid UTF-8 are dropped from the string, as with
\* errors="ignore", and no error is raised
DecodedLossy(b) == Res("msg", IF Decodable(b) THEN Decode(b) ELSE <<>>)

\* lines 93 and 110: bytes.decode("utf-8") returns the string or raises
Decoded(b) == IF Decodable(b) THEN Res("msg", Decode(b)) ELSE Raise("DecodeError")

\* a slip: end of stream returns whatever the buffer holds, even nothing
HasLeftoverAlways(buf) == TRUE

\* line 106: if self._recv_buffer
HasLeftover(buf) == buf # <<>>

\* a slip: the leftover bytes are returned and kept
KeepLeftover(buf) == buf

\* line 109: self._recv_buffer = b""
AfterLeftover(buf) == <<>>

\* a slip: the chunk replaces the buffer
AppendedReplacing(buf, c) == c

\* line 114: self._recv_buffer += chunk
Appended(buf, c) == buf \o c

\* lines 83-84: the closed check
StartRecv(t) ==
    /\ Enter(t, "recv")
    /\ IF IsClosed THEN
           /\ Leave(t, Raise("ClosedError"))
           /\ hist' = Append(hist, Raise("ClosedError"))
       ELSE
           /\ pc' = [pc EXCEPT ![t] = "r_lock"]
           /\ result' = [result EXCEPT ![t] = NoResult]
           /\ UNCHANGED hist
    /\ UNCHANGED <<closed, sock, lock, recv_buffer, payload, totalsent, chunk, inflight,
                   peerClosed, reads, wire, sentlog, data, start, mark,
                   closeReturned, tailDone, scope>>

\* line 86: the lock is taken
RecvAcquire(t) ==
    /\ pc[t] = "r_lock"
    /\ Acquire(t)
    /\ mark' = [mark EXCEPT ![t] = Len(rcvd) - Len(recv_buffer)]
    /\ pc' = [pc EXCEPT ![t] = "r_check"]
    /\ UNCHANGED <<closed, sock, recv_buffer, op, payload, totalsent, chunk, result,
                   inflight, peerClosed, reads, wire, hist, sentlog, data, start, calls, closeReturned, tailDone,
                   scope>>

\* receive_data is over: its locals are dead
RecvEnd(t, r) ==
    /\ Leave(t, r)
    /\ Release(t)
    /\ hist' = Append(hist, IF r.kind = "Timeout" THEN Res("Timeout", recv_buffer) ELSE r)
    /\ chunk' = [chunk EXCEPT ![t] = <<>>]
    /\ mark' = [mark EXCEPT ![t] = 0]

\* lines 89-93: the buffer is searched for a newline; the first line is cut off the
\* buffer and decoded, or the loop goes on to read
RecvCheck(t) ==
    /\ pc[t] = "r_check"
    /\ LET nl_index == Find(recv_buffer)
       IN  IF HasLine(nl_index) THEN
               /\ recv_buffer' = AfterLine(recv_buffer, nl_index)
               /\ RecvEnd(t, Decoded(Line(recv_buffer, nl_index)))
           ELSE
               /\ pc' = [pc EXCEPT ![t] = "r_recv"]
               /\ UNCHANGED <<recv_buffer, lock, result, chunk, mark, hist>>
    /\ UNCHANGED <<closed, sock, op, payload, totalsent, inflight, peerClosed, reads, wire,
                   sentlog, data, start, calls, closeReturned, tailDone, scope>>

\* line 97: recv returns the bytes that have arrived, at most 4096 of them
RecvData(t) ==
    /\ pc[t] = "r_recv"
    /\ sock \in {"open", "shut"}
    /\ inflight # <<>>
    /\ LET n == Min(Len(inflight), RecvSize)
       IN  /\ chunk' = [chunk EXCEPT ![t] = Take(inflight, n)]
           /\ reads' = Append(reads, Take(inflight, n))
           /\ inflight' = Drop(inflight, n)
    /\ pc' = [pc EXCEPT ![t] = "r_chunk"]
    /\ UNCHANGED <<closed, sock, lock, recv_buffer, op, payload, totalsent, result,
                   peerClosed, wire, hist, sentlog, data, start, mark, calls,
                   closeReturned, tailDone, scope>>

\* line 97: recv returns b"": the peer has closed and nothing is left to read, or
\* close() has shut the socket down under the reader
RecvEof(t) ==
    /\ pc[t] = "r_recv"
    /\ \/ sock = "open" /\ peerClosed /\ inflight = <<>>
       \/ sock = "shut" /\ inflight = <<>>
       \/ sock = "released"
    /\ chunk' = [chunk EXCEPT ![t] = <<>>]
    /\ pc' = [pc EXCEPT ![t] = "r_chunk"]
    /\ UNCHANGED <<closed, sock, lock, recv_buffer, op, payload, totalsent, result,
                   inflight, peerClosed, reads, wire, hist, sentlog, data, start, mark,
                   calls, closeReturned, tailDone, scope>>

\* lines 98-102: recv raises: socket.timeout is re-raised, any other socket error
\* becomes RuntimeError("Socket recv error")
RecvRaise(t, e) ==
    /\ pc[t] = "r_recv"
    /\ e \in {"Timeout", "RecvError"}
    /\ \/ sock = "open" /\ ~peerClosed /\ inflight = <<>>
       \/ sock \in {"broken", "released"} /\ e = "RecvError"
    /\ RecvEnd(t, Raise(e))
    /\ UNCHANGED <<closed, sock, recv_buffer, op, payload, totalsent, inflight,
                   peerClosed, reads, wire, sentlog, data, start, calls,
                   closeReturned, tailDone, scope>>

\* lines 104-114: an empty chunk ends the call, with the leftover bytes or with
\* RuntimeError("Server closed connection"); any other chunk is appended
RecvChunk(t) ==
    /\ pc[t] = "r_chunk"
    /\ IF chunk[t] = <<>> THEN
           IF HasLeftover(recv_buffer) THEN
               /\ recv_buffer' = AfterLeftover(recv_buffer)
               /\ RecvEnd(t, Decoded(recv_buffer))
               /\ tailDone' = TRUE
           ELSE
               /\ RecvEnd(t, Raise("ServerClosed"))
               /\ UNCHANGED <<recv_buffer, tailDone>>
       ELSE
           /\ recv_buffer' = Appended(recv_buffer, chunk[t])
           /\ chunk' = [chunk EXCEPT ![t] = <<>>]
           /\ pc' = [pc EXCEPT ![t] = "r_check"]
           /\ UNCHANGED <<lock, result, mark, hist, tailDone>>
    /\ UNCHANGED <<closed, sock, op, payload, totalsent, inflight, peerClosed, reads, wire,
                   sentlog, data, start, calls, closeReturned, scope>>

(* -------------------------------- close -------------------------------- *)
\* lines 118-119: a closed instance returns at once
CloseEntry(t) ==
    /\ Enter(t, "close")
    /\ IF IsClosed THEN
           /\ Leave(t, Res("ok", <<>>))
           /\ closeReturned' = TRUE
       ELSE
           /\ pc' = [pc EXCEPT ![t] = "c_shutdown"]
           /\ result' = [result EXCEPT ![t] = NoResult]
           /\ UNCHANGED closeReturned
    /\ UNCHANGED <<closed, sock, lock, recv_buffer, payload, totalsent, chunk, inflight,
                   peerClosed, reads, wire, hist, sentlog, data, start, mark, tailDone>>

\* a call of close()
StartClose(t) == CloseEntry(t) /\ UNCHANGED scope

\* lines 121-122: shutdown(SHUT_RDWR) succeeds on a connected socket
CloseShutdown(t) ==
    /\ pc[t] = "c_shutdown"
    /\ sock \in {"open", "shut"}
    /\ sock' = "shut"
    /\ pc' = [pc EXCEPT ![t] = "c_close"]
    /\ UNCHANGED <<closed, lock, recv_buffer, op, payload, totalsent, chunk, result,
                   inflight, peerClosed, reads, wire, hist, sentlog, data, start, mark,
                   calls, closeReturned, tailDone, scope>>

\* lines 122-125: shutdown raises (the connection is gone, or another close() has
\* released the descriptor); the exception is swallowed and line 123 is skipped
CloseShutdownRaise(t) ==
    /\ pc[t] = "c_shutdown"
    /\ sock' = IF sock = "released" THEN "released" ELSE "broken"
    /\ pc' = [pc EXCEPT ![t] = "c_flag"]
    /\ UNCHANGED <<closed, lock, recv_buffer, op, payload, totalsent, chunk, result,
                   inflight, peerClosed, reads, wire, hist, sentlog, data, start, mark,
                   calls, closeReturned, tailDone, scope>>

\* line 123: self._sock.close() releases the descriptor
CloseSock(t) ==
    /\ pc[t] = "c_close"
    /\ sock' = "released"
    /\ pc' = [pc EXCEPT ![t] = "c_flag"]
    /\ UNCHANGED <<closed, lock, recv_buffer, op, payload, totalsent, chunk, result,
                   inflight, peerClosed, reads, wire, hist, sentlog, data, start, mark,
                   calls, closeReturned, tailDone, scope>>

\* a slip: close() drops the bytes still buffered
CloseFlagClearsBuffer(t) ==
    /\ pc[t] = "c_flag"
    /\ closed' = TRUE
    /\ recv_buffer' = <<>>
    /\ Leave(t, Res("ok", <<>>))
    /\ closeReturned' = TRUE
    /\ UNCHANGED <<sock, lock, op, payload, totalsent, chunk, inflight,
                   peerClosed, reads, wire, hist, sentlog, data, start, mark, calls,
                   tailDone, scope>>

\* line 126: the flag is set and close() returns
CloseFlag(t) ==
    /\ pc[t] = "c_flag"
    /\ closed' = TRUE
    /\ Leave(t, Res("ok", <<>>))
    /\ closeReturned' = TRUE
    /\ UNCHANGED <<sock, lock, recv_buffer, op, payload, totalsent, chunk, inflight,
                   peerClosed, reads, wire, hist, sentlog, data, start, mark, calls,
                   tailDone, scope>>

(* ----------------------------- with blocks ----------------------------- *)
\* lines 129-130: __enter__ returns the instance and the body of the block starts
WithEnter(t) ==
    /\ scope[t].at = "out"
    /\ pc[t] = "idle"
    /\ scope' = [scope EXCEPT ![t].at = "body"]
    /\ UNCHANGED <<closed, sock, lock, recv_buffer, pc, op, payload, totalsent, chunk,
                   result, inflight, peerClosed, reads, wire, hist, sentlog, data, start,
                   mark, calls, closeReturned, tailDone>>

\* how the body of a with block can end: normally, by the exception its last call
\* on the instance raised, or by an exception of its own
BodyEnds(t) ==
    {"none", "BodyError"}
        \cup (IF result[t].kind \in {"none", "ok", "msg"} THEN {} ELSE {result[t].kind})

\* a slip: __exit__ returns True, which suppresses the exception of the body
Suppressed(e) == "none"

\* line 133: __exit__ returns None, so the with statement raises the exception of
\* the body again
Propagated(e) == e

\* lines 132-133: the body ends with outcome e, __exit__ is entered and calls close()
WithExit(t, e) ==
    /\ scope[t].at = "body"
    /\ e \in BodyEnds(t)
    /\ CloseEntry(t)
    /\ scope' = [scope EXCEPT ![t] = [at |-> "exit", exc |-> e, out |-> "none"]]

\* line 133: close() has returned, __exit__ returns and the with statement is left
WithLeave(t) ==
    /\ scope[t].at = "exit"
    /\ pc[t] = "idle"
    /\ scope' = [scope EXCEPT ![t] = [at |-> "left", exc |-> scope[t].exc,
                                      out |-> Propagated(scope[t].exc)]]
    /\ UNCHANGED <<closed, sock, lock, recv_buffer, pc, op, payload, totalsent, chunk,
                   result, inflight, peerClosed, reads, wire, hist, sentlog, data, start,
                   mark, calls, closeReturned, tailDone>>

(* ------------------------------- the peer ------------------------------- *)
\* one more byte of the peer's stream reaches the socket
PeerSend(b) ==
    /\ sock = "open"
    /\ ~peerClosed
    /\ Len(rcvd) + Len(inflight) < MaxStream
    /\ inflight' = Append(inflight, b)
    /\ UNCHANGED <<closed, sock, lock, recv_buffer, pc, op, payload, totalsent, chunk,
                   result, peerClosed, reads, wire, hist, sentlog, data, start, mark, calls, closeReturned, tailDone,
                   scope>>

\* the peer's lines: one whose bytes are not valid UTF-8 and one that is valid
PeerLines == {<<169, NL>>, <<65, NL>>}

\* a whole line of the peer reaches the socket at once
PeerSendLine(m) ==
    /\ sock = "open"
    /\ ~peerClosed
    /\ Cardinality({i \in 1..Len(rcvd \o inflight) : (rcvd \o inflight)[i] = NL}) < MaxLines
    /\ inflight' = inflight \o m
    /\ UNCHANGED <<closed, sock, lock, recv_buffer, pc, op, payload, totalsent, chunk,
                   result, peerClosed, reads, wire, hist, sentlog, data, start, mark, calls,
                   closeReturned, tailDone, scope>>

\* the peer closes its end of the connection
PeerClose ==
    /\ sock = "open"
    /\ ~peerClosed
    /\ peerClosed' = TRUE
    /\ UNCHANGED <<closed, sock, lock, recv_buffer, pc, op, payload, totalsent, chunk,
                   result, inflight, reads, wire, hist, sentlog, data, start, mark, calls, closeReturned, tailDone,
                   scope>>

(* ---------------------------- specifications --------------------------- *)
SendSteps(t) ==
    \/ SendAcquire(t)
    \/ \E n \in 1..MaxPayload : SendWrite(t, n)
    \/ SendZero(t)
    \/ \E e \in {"Timeout", "SocketError"} : SendRaise(t, e)

RecvSteps(t) ==
    \/ RecvAcquire(t)
    \/ RecvCheck(t)
    \/ RecvData(t)
    \/ RecvEof(t)
    \/ \E e \in {"Timeout", "RecvError"} : RecvRaise(t, e)
    \/ RecvChunk(t)

CloseSteps(t) ==
    \/ StartClose(t)
    \/ CloseShutdown(t)
    \/ CloseShutdownRaise(t)
    \/ CloseSock(t)
    \/ CloseFlag(t)

\* Threads that send, receive and close on one instance, with short messages
MixData == {<<65>>}
MixBytes == {NL, 65}

Next ==
    \/ \E t \in Threads : \E d \in MixData : StartSend(t, d)
    \/ \E t \in Threads : SendSteps(t)
    \/ \E t \in Threads : StartRecv(t)
    \/ \E t \in Threads : RecvSteps(t)
    \/ \E t \in Threads : CloseSteps(t)
    \/ \E b \in MixBytes : PeerSend(b)
    \/ PeerClose

Spec == Init /\ [][Next]_vars

\* Threads that receive and close, against every stream of the peer
NextRecv ==
    \/ \E t \in Threads : StartRecv(t)
    \/ \E t \in Threads : RecvSteps(t)
    \/ \E t \in Threads : CloseSteps(t)
    \/ \E b \in PeerBytes : PeerSend(b)
    \/ PeerClose

SpecRecv == Init /\ [][NextRecv]_vars

\* Threads that send and close, with every argument
NextSend ==
    \/ \E t \in Threads : \E d \in Data \cup {NotStr} : StartSend(t, d)
    \/ \E t \in Threads : SendSteps(t)
    \/ \E t \in Threads : CloseSteps(t)

SpecSend == Init /\ [][NextSend]_vars

\* Threads that each use the instance in a with block: send_data and close()
\* calls are made in the body of the block, and leaving the block closes the
\* instance
NextWith ==
    \/ \E t \in Threads : WithEnter(t)
    \/ \E t \in Threads : \E d \in MixData : scope[t].at = "body" /\ StartSend(t, d)
    \/ \E t \in Threads : SendSteps(t)
    \/ \E t \in Threads : (pc[t] = "idle" => scope[t].at = "body") /\ CloseSteps(t)
    \/ \E t \in Threads : \E e \in {"none", "BodyError", "SendBroken", "Timeout",
                                    "SocketError", "ClosedError"} : WithExit(t, e)
    \/ \E t \in Threads : WithLeave(t)

SpecWith == Init /\ [][NextWith]_vars

\* Threads that receive, against a peer that sends whole lines
NextLines ==
    \/ \E t \in Threads : StartRecv(t)
    \/ \E t \in Threads : RecvSteps(t)
    \/ \E m \in PeerLines : PeerSendLine(m)
    \/ PeerClose

SpecLines == Init /\ [][NextLines]_vars

(* ------------------------- vocabulary of the claims --------------------- *)
\* the delimiter-separated messages of a byte stream, read byte by byte: every
\* delimiter ends a message, and bytes after the last delimiter are a last message
RECURSIVE Segs(_, _)
Segs(b, acc) ==
    IF b = <<>> THEN (IF acc = <<>> THEN <<>> ELSE <<acc>>)
    ELSE IF Head(b) = NL THEN <<acc>> \o Segs(Tail(b), <<>>)
    ELSE Segs(Tail(b), Append(acc, Head(b)))

SplitLines(b) == Segs(b, <<>>)

\* what is left of a byte stream after its first n messages
RECURSIVE Rest(_, _)
Rest(b, n) ==
    IF n = 0 THEN b
    ELSE IF b = <<>> THEN <<>>
    ELSE IF Head(b) = NL THEN Rest(Tail(b), n - 1)
    ELSE Rest(Tail(b), n)

\* the positions of the program inside a with self._lock block
InLock == {"s_loop", "r_check", "r_recv", "r_chunk"}

\* the outcomes of the receive_data calls that took bytes out of the buffer
TookBytes(h) == h.kind \in {"msg", "DecodeError"}
rlog == SelectSeq(hist, TookBytes)

\* the chunk read from the socket and not yet appended to the buffer
Pending == IF lock # 0 /\ pc[lock] = "r_chunk" THEN chunk[lock] ELSE <<>>

\* thread t's call ends in this step
Ends(t) ==
    \/ pc[t] # "idle" /\ pc'[t] = "idle"
    \/ /\ calls' = calls + 1 /\ pc[t] = "idle" /\ pc'[t] = "idle"
       /\ op'[t] # op[t] \/ result'[t] # result[t]

\* b is the UTF-8 encoding of some string (of the code points the peer's bytes can spell)
IsUtf8(b) == \E s \in UNION {[1..k -> {NL, 65, 233}] : k \in 0..Len(b)} : Encode(s) = b

(* -------------------------------- claims -------------------------------- *)
\* C1 as stated: the receive_data calls that took bytes out of the buffer returned,
\* in order and one for one, the delimiter-separated messages of the bytes read so
\* far, and the bytes after those messages are what the buffer holds.
C1_AllMessagesReturned ==
    LET segs == SplitLines(rcvd)
        n == Len(rlog)
    IN  /\ n <= Len(segs)
        /\ \A i \in 1..n : rlog[i].kind = "msg" /\ Encode(rlog[i].val) = segs[i]
        /\ recv_buffer \o Pending = Rest(rcvd, n)

\* C1 as amended: the i-th receive_data call that took bytes out of the buffer took
\* exactly the i-th delimiter-separated message of the stream; it returned that
\* message when its bytes are valid UTF-8 and raised the decode error when they are
\* not; no message is skipped, merged or taken twice, and the bytes after the taken
\* messages are what the buffer holds.
C1_MessagesInOrder ==
    LET segs == SplitLines(rcvd)
        n == Len(rlog)
    IN  /\ n <= Len(segs)
        /\ \A i \in 1..n :
              \/ rlog[i].kind = "msg" /\ Encode(rlog[i].val) = segs[i]
              \/ rlog[i].kind = "DecodeError" /\ ~IsUtf8(segs[i])
        /\ recv_buffer \o Pending = Rest(rcvd, n)

\* C1 witness: two messages arrived in one chunk; two calls returned one each,
\* the second one from the bytes the first call left in the buffer.
C1_Witness ==
    /\ reads = << <<NL, NL>> >>
    /\ rlog = << Res("msg", <<>>), Res("msg", <<>>) >>
    /\ recv_buffer = <<>>

\* C2: at most one send_data or receive_data call is inside its with self._lock
\* block at any time, and the thread inside is the one the lock records.
C2_MutualExclusion ==
    /\ Cardinality({t \in Threads : pc[t] \in InLock}) <= 1
    /\ \A t \in Threads : pc[t] \in InLock => lock = t

\* C2 witness: a send has written part of its payload and a receive waits for the lock.
C2_Witness ==
    \E t, u \in Threads :
        /\ pc[t] = "s_loop" /\ totalsent[t] >= 1
        /\ pc[u] = "r_lock"

\* C3: the frame of every send_data call that returned normally lies contiguously
\* on the wire, and the frames lie one after the other in the order the calls
\* completed.
C3_FramesContiguous ==
    \A i \in 1..Len(sentlog) :
        LET f == sentlog[i]
        IN  /\ f.start + f.len <= Len(wire)
            /\ SubSeq(wire, f.start + 1, f.start + f.len) = f.frame
            /\ \A j \in 1..Len(sentlog) : i < j => f.start + f.len <= sentlog[j].start

\* C3 witness: two threads have each sent a frame, one of them in several partial
\* writes, and the second frame starts where the first one ends.
C3_Witness ==
    /\ Len(sentlog) = 2
    /\ \A t \in Threads : op[t] = "send" /\ result[t].kind = "ok"
    /\ sentlog[1].split
    /\ sentlog[2].start = sentlog[1].len

\* C4: once some close() call has returned, a send_data or receive_data call that
\* starts fails at once with the closed error, and the step changes neither the
\* lock, the socket, the wire, the inbound stream nor the receive buffer.
C4_PostCloseRejection ==
    [][(closeReturned /\ calls' = calls + 1)
          => /\ pc' = pc
             /\ \A t \in Threads :
                   (op'[t] \in {"send", "recv"} /\ (op'[t] # op[t] \/ result'[t] # result[t]))
                      => result'[t] = Raise("ClosedError")
             /\ UNCHANGED <<lock, sock, wire, reads, inflight, recv_buffer>>]_vars

\* C4 witness: close() has returned and a send_data call made after it was rejected
\* with nothing on the wire.
C4_Witness ==
    /\ closeReturned
    /\ wire = <<>>
    /\ \E t \in Threads : op[t] = "send" /\ result[t] = Raise("ClosedError")

\* C5: once the closed flag is set, no send_data or receive_data call returns
\* normally.
C5_NoSuccessOnceClosed ==
    [][\A t \in Threads :
          (closed /\ Ends(t) /\ op'[t] \in {"send", "recv"})
             => result'[t].kind \notin {"ok", "msg"}]_vars

\* thread t is at lines 104-110 with an empty chunk and leftover bytes
AtTail(t) == pc[t] = "r_chunk" /\ chunk[t] = <<>> /\ recv_buffer # <<>>

\* C6 as stated: an empty read over a non-empty buffer makes the call return the
\* buffered bytes as a message and clear the buffer, and every receive_data call
\* that ends after that fails with the connection-closed error.
C6_TailOnceThenConnectionClosed ==
    [][\A t \in Threads :
          /\ (AtTail(t) /\ Ends(t))
                => /\ result'[t].kind = "msg"
                   /\ Encode(result'[t].val) = recv_buffer
                   /\ recv_buffer' = <<>>
          /\ (tailDone /\ Ends(t) /\ op'[t] = "recv")
                => result'[t] = Raise("ServerClosed")]_vars

\* C6 as amended: an empty read over a non-empty buffer ends the call and clears the
\* buffer; the call returns the buffered bytes as a message when they are valid
\* UTF-8 and raises the decode error when they are not.  Every receive_data call
\* that ends after that fails and returns no message: with the connection-closed
\* error while close() has not touched the socket, and with the connection-closed,
\* the closed or the recv error once it has.
C6_TailOnceThenFailure ==
    [][\A t \in Threads :
          /\ (AtTail(t) /\ pc'[t] # pc[t])
                => /\ Ends(t)
                   /\ recv_buffer' = <<>>
                   /\ \/ result'[t].kind = "msg" /\ Encode(result'[t].val) = recv_buffer
                      \/ result'[t] = Raise("DecodeError") /\ ~IsUtf8(recv_buffer)
          /\ (tailDone /\ Ends(t) /\ op'[t] = "recv")
                => /\ result'[t].kind \in {"ServerClosed", "ClosedError", "RecvError"}
                   /\ sock = "open" => result'[t].kind = "ServerClosed"
                   /\ recv_buffer = <<>> /\ recv_buffer' = <<>>]_vars

\* C6 witness: the peer sent "A" and closed; one call returned "A", the next one
\* failed with the connection-closed error.
C6_Witness ==
    /\ reads = << <<65>> >>
    /\ peerClosed
    /\ hist = << Res("msg", <<65>>), Raise("ServerClosed") >>
    /\ recv_buffer = <<>>

\* C7: an empty read over an empty buffer ends the call at once with the
\* connection-closed error: no message is logged, nothing more is read, the lock is
\* released and the buffer stays empty.
C7_EmptyThenClosed ==
    [][\A t \in Threads :
          (pc[t] = "r_chunk" /\ chunk[t] = <<>> /\ recv_buffer = <<>> /\ pc'[t] # pc[t])
             => /\ Ends(t)
                /\ result'[t] = Raise("ServerClosed")
                /\ hist' = Append(hist, Raise("ServerClosed"))
                /\ lock' = 0
                /\ UNCHANGED <<reads, inflight, recv_buffer>>]_vars

\* C7 witness: the peer closed without sending; the first call failed with the
\* connection-closed error.
C7_Witness ==
    /\ reads = <<>>
    /\ peerClosed
    /\ sock = "open"
    /\ hist = << Raise("ServerClosed") >>

\* C8: receive_data returns a message only from the buffer check, when the buffer
\* holds a delimiter (the bytes before the first one), or after a read of zero
\* bytes; after a non-empty chunk the call goes back to the buffer check.
C8_NoPartialMessage ==
    [][\A t \in Threads :
          /\ (Ends(t) /\ result'[t].kind = "msg")
                => \/ /\ pc[t] = "r_check"
                      /\ \E i \in 1..Len(recv_buffer) : recv_buffer[i] = NL
                      /\ Encode(result'[t].val) = SplitLines(recv_buffer)[1]
                   \/ pc[t] = "r_chunk" /\ chunk[t] = <<>>
          /\ (pc[t] = "r_chunk" /\ chunk[t] # <<>> /\ pc'[t] # pc[t])
                => pc'[t] = "r_check" /\ result'[t] = NoResult]_vars

\* C8 witness: two chunks without a delimiter have been read and the call is still
\* waiting for more.
C8_Witness ==
    \E t \in Threads :
        /\ pc[t] = "r_recv"
        /\ reads = << <<65>>, <<65>> >>
        /\ recv_buffer = <<65, 65>>
        /\ hist = <<>>

\* C9: a receive_data call that ends with a timeout changes neither the buffer, the
\* closed flag, the socket nor the inbound stream, and the buffer then holds every
\* byte it held when the call took the lock followed by every byte the call read;
\* at all times the buffer (with the chunk about to be appended) is exactly the
\* part of the stream after the messages already taken, so the next call goes on
\* from those bytes.
C9_TimeoutPreservesState ==
    /\ [][\A t \in Threads :
             (pc[t] = "r_recv" /\ Ends(t) /\ result'[t].kind = "Timeout")
                => /\ recv_buffer' = recv_buffer
                   /\ recv_buffer' = Drop(rcvd, mark[t])
                   /\ UNCHANGED <<closed, sock, reads, inflight>>]_vars
    /\ [](recv_buffer \o Pending = Rest(rcvd, Len(rlog)))

\* C9 witness: a call timed out with "A" buffered, and a later call returned "A"
\* once the delimiter arrived.
C9_Witness ==
    /\ hist = << Res("Timeout", <<65>>), Res("msg", <<65>>) >>
    /\ reads = << <<65>>, <<NL>> >>
    /\ ~closed

\* a string without the delimiter
NoDelimiter(d) == \A i \in 1..Len(d) : d[i] # NL

\* C10: for a string S without a delimiter, the bytes a successful send_data(S)
\* put on the wire are the UTF-8 bytes of S followed by one delimiter, whatever
\* the partial writes were, and splitting them on the delimiter and decoding
\* gives S back.
C10_FramingRoundTrip ==
    \A i \in 1..Len(sentlog) :
        LET f == sentlog[i]
            w == SubSeq(wire, f.start + 1, f.start + f.len)
        IN  NoDelimiter(f.data)
               => /\ f.start + f.len <= Len(wire)
                  /\ w = Encode(f.data) \o <<NL>>
                  /\ SplitLines(w) = <<Encode(f.data)>>
                  /\ IsUtf8(SplitLines(w)[1])
                  /\ Decode(SplitLines(w)[1]) = f.data

\* C10 witness: the one-character string U+00E9 was sent in several partial writes.
C10_Witness ==
    /\ Len(sentlog) >= 1
    /\ sentlog[1].data = <<233>>
    /\ sentlog[1].split
    /\ wire = <<195, 169, NL>>

\* the string without its final delimiter, when it has one
Body(d) == IF EndsWithNL(d) THEN Take(d, Len(d) - 1) ELSE d

\* the bytes a logged send put on the wire
Written(f) == SubSeq(wire, f.start + 1, f.start + f.len)

\* the number of delimiters in a byte string
Delimiters(b) == Cardinality({i \in 1..Len(b) : b[i] = NL})

BeginsClose(t) == calls' = calls + 1 /\ pc[t] = "idle" /\ op'[t] = "close"

\* C12: close() never raises: every close() call ends by returning normally; a
\* call that found the flag unset sets it when it returns, whatever shutdown
\* reported; a call begun once the flag is set returns at once and touches
\* neither the socket nor any other state of the instance; and whenever a
\* close() call has returned, also one of two that ran concurrently, the instance
\* is closed.
C12_CloseIdempotent ==
    /\ [][\A t \in Threads :
             /\ (Ends(t) /\ op'[t] = "close") => result'[t] = Res("ok", <<>>)
             /\ (pc[t] \in {"c_shutdown", "c_close", "c_flag"} /\ pc'[t] # pc[t])
                   => pc'[t] \in {"c_close", "c_flag", "idle"}
             /\ (pc[t] = "c_flag" /\ pc'[t] # pc[t]) => pc'[t] = "idle" /\ closed'
             /\ (BeginsClose(t) /\ closed)
                   => /\ pc'[t] = "idle" /\ result'[t] = Res("ok", <<>>)
                      /\ UNCHANGED <<closed, sock, lock, recv_buffer, inflight,
                                     peerClosed, reads, wire>>]_vars
    /\ [](closeReturned => closed)

\* C12 witness: two close() calls both passed the test of the flag; one has shut
\* the socket down, released it, set the flag and returned, the other found the
\* descriptor released and is about to set the flag again.
C12_Witness ==
    \E t, u \in Threads :
        /\ pc[t] = "idle" /\ op[t] = "close" /\ result[t] = Res("ok", <<>>)
        /\ closed /\ closeReturned /\ sock = "released"
        /\ pc[u] = "c_flag"

\* C13: the closed flag never goes back from set to unset, and the only step that
\* sets it is the last step of a close() call (line 126; leaving a with block is
\* such a call): a step in which a send_data or receive_data call ends with a
\* zero-byte write, a timeout, a transport error, end of stream or a decode
\* error, and every step of the peer, leaves the flag as it was.
C13_OneWayLifecycle ==
    [][/\ closed => closed'
       /\ (~closed /\ closed')
             => \E t \in Threads : /\ op[t] = "close" /\ pc[t] = "c_flag"
                                   /\ pc'[t] = "idle"
       /\ \A t \in Threads :
             (Ends(t) /\ op'[t] \in {"send", "recv"}) => closed' = closed
       /\ (inflight' # inflight \/ peerClosed' # peerClosed) => closed' = closed]_vars

\* C13 witness: a send failed on a zero-byte write, a receive failed on the peer's
\* closure, and the instance is still open.
C13_Witness ==
    \E t, u \in Threads :
        /\ pc[t] = "idle" /\ result[t] = Raise("SendBroken")
        /\ pc[u] = "idle" /\ result[u] = Raise("ServerClosed")
        /\ ~closed /\ peerClosed

\* C14: a thread leaves the body of a with block only into __exit__, which calls
\* close(); the block is left only when that close() call has returned, so on
\* every exit, after a normal end of the body as after an exception, the
\* instance is closed; and the with statement raises to its caller exactly what
\* the body raised (nothing when the body ended normally).
C14_ScopedUse ==
    /\ [][\A t \in Threads :
             /\ (scope[t].at = "body" /\ scope'[t].at # "body")
                   => scope'[t].at = "exit" /\ BeginsClose(t)
             /\ (scope[t].at = "exit" /\ scope'[t].at # "exit")
                   => /\ scope'[t].at = "left"
                      /\ pc[t] = "idle" /\ op[t] = "close"
                      /\ result[t] = Res("ok", <<>>)
                      /\ closed /\ closed'
             /\ scope[t].at = "left" => scope'[t] = scope[t]]_vars
    /\ [](\A t \in Threads :
             scope[t].at = "left" => closed /\ scope[t].out = scope[t].exc)

\* C14 witness: a block was left after its body's send had failed on a zero-byte
\* write: close() has run, the instance is closed and the failure was raised to
\* the caller of the with statement.
C14_Witness ==
    \E t \in Threads :
        /\ scope[t] = [at |-> "left", exc |-> "SendBroken", out |-> "SendBroken"]
        /\ op[t] = "close" /\ pc[t] = "idle"
        /\ closed /\ sock = "released"

\* the bytes on the wire that thread t's send_data call in progress has written
WrittenSoFar(t) == Drop(wire, start[t])

\* C15: when a write of send_data reports zero bytes, the step ends the call with
\* the transport error: nothing is written in that step, the thread is out of the
\* loop with no payload left to write, and the bytes its earlier iterations wrote
\* are still the last bytes on the wire; a step that ends a send_data call in its
\* loop without writing a byte never ends it normally; and no step ever takes a
\* byte off the wire.
C15_ZeroByteWriteFails ==
    [][/\ \A t \in Threads :
             /\ (pc[t] = "s_loop" /\ Ends(t) /\ result'[t] = Raise("SendBroken"))
                   => /\ wire' = wire
                      /\ pc'[t] = "idle" /\ payload'[t] = <<>> /\ lock' = 0
                      /\ WrittenSoFar(t) = Take(payload[t], totalsent[t])
                      /\ totalsent[t] < Len(payload[t])
             /\ (pc[t] = "s_loop" /\ Ends(t) /\ wire' = wire)
                   => result'[t].kind \in {"SendBroken", "Timeout", "SocketError"}
             /\ result'[t] = Raise("SendBroken") /\ result[t] # result'[t]
                   => pc[t] = "s_loop" /\ sock = "open"
       /\ Len(wire') >= Len(wire) /\ Take(wire', Len(wire)) = wire]_vars

\* C15 witness: send_data("é") wrote the first byte of its three-byte payload,
\* the next write reported zero bytes, and the call failed with that one byte on
\* the wire.
C15_Witness ==
    \E t \in Threads :
        /\ pc[t] = "idle" /\ op[t] = "send" /\ result[t] = Raise("SendBroken")
        /\ wire = <<195>>
        /\ sentlog = <<>>
        /\ lock = 0

\* C16: once a close() call has set the flag and returned, the descriptor of the
\* socket has been released, also when shutdown raised.
C16_TeardownComplete == closed => sock = "released"

\* thread t takes a step of the call it is making or begins a call
Steps(t) == pc'[t] # pc[t] \/ result'[t] # result[t] \/ op'[t] # op[t]

\* C17: a step changes the receive buffer only when it is a step of a
\* receive_data call holding the lock, and then it either appends the chunk just
\* read from the socket, or removes the first message and its delimiter, or, at
\* end of stream, removes all that is buffered; no step of a send_data or close()
\* call, whatever its outcome, changes the buffer.
C17_BufferFrame ==
    [][/\ recv_buffer' # recv_buffer
             => \E t \in Threads :
                   /\ op[t] = "recv" /\ lock = t
                   /\ \/ /\ pc[t] = "r_chunk" /\ chunk[t] # <<>>
                         /\ recv_buffer' = recv_buffer \o chunk[t]
                      \/ /\ pc[t] = "r_check"
                         /\ \E n \in 0..(Len(recv_buffer) - 1) :
                               /\ NoDelimiter(Take(recv_buffer, n))
                               /\ recv_buffer[n + 1] = NL
                               /\ recv_buffer' = Drop(recv_buffer, n + 1)
                      \/ /\ pc[t] = "r_chunk" /\ chunk[t] = <<>>
                         /\ recv_buffer' = <<>>
       /\ \A t \in Threads :
             (Steps(t) /\ op'[t] \in {"send", "close"}) => recv_buffer' = recv_buffer]_vars

\* C17 witness: with the byte "A" buffered by a receive that timed out, a close()
\* call has run to its end and the byte is still buffered.
C17_Witness ==
    /\ recv_buffer = <<65>>
    /\ hist = << Res("Timeout", <<65>>) >>
    /\ closed
    /\ \E t \in Threads : op[t] = "close" /\ pc[t] = "idle"

\* the frames of the send_data calls that returned normally, in order
RECURSIVE Frames(_)
Frames(log) == IF log = <<>> THEN <<>> ELSE Head(log).frame \o Frames(Tail(log))

\* what the send_data call holding the lock has written of its frame
Current ==
    IF lock # 0 /\ pc[lock] = "s_loop" THEN Take(payload[lock], totalsent[lock]) ELSE <<>>

\* the delimiter-terminated segments of a byte stream
Terminated(b) ==
    IF b # <<>> /\ b[Len(b)] # NL THEN Take(SplitLines(b), Len(SplitLines(b)) - 1)
    ELSE SplitLines(b)

\* C18: in every reachable state the wire is the concatenation of the complete
\* frames of the sends that returned, followed by what the send holding the lock
\* has written of its frame, and every delimiter-terminated segment on the wire
\* is, with its delimiter, the payload of a send_data call of a message.
C18_WireIsWholeFrames ==
    /\ wire = Frames(sentlog) \o Current
    /\ \A i \in 1..Len(Terminated(wire)) :
          \E d \in Data : /\ NoDelimiter(Body(d)) /\ Encodable(d)
                          /\ Encode(Framed(d)) = Terminated(wire)[i] \o <<NL>>

\* C19: whenever no thread is inside a with self._lock block the lock is free, and
\* every step that ends a send_data or receive_data call that held the lock,
\* whatever the outcome (return, timeout, transport error, zero-byte write, peer
\* closure, decode error), frees it; so a thread waiting for the lock after a
\* failed call can take it.
C19_LockReleased ==
    /\ [][\A t \in Threads :
             (pc[t] \in InLock /\ pc'[t] = "idle") => lock = t /\ lock' = 0]_vars
    /\ []((\A t \in Threads : pc[t] \notin InLock) => lock = 0)
    /\ [](\A t \in Threads :
             (pc[t] \in {"s_lock", "r_lock"} /\ \A u \in Threads : pc[u] \notin InLock)
                => (ENABLED SendAcquire(t)) \/ (ENABLED RecvAcquire(t)))

\* C19 witness: a send_data call failed on a zero-byte write after a partial
\* write while a receive_data call was waiting for the lock, and the lock is free
\* for it.
C19_Witness ==
    \E t, u \in Threads :
        /\ pc[t] = "idle" /\ result[t] = Raise("SendBroken") /\ wire # <<>>
        /\ pc[u] = "r_lock"
        /\ lock = 0

\* C20: a receive_data call that finds a delimiter in the buffer, the bytes before
\* it not being valid UTF-8, ends with the decode error, and that step takes
\* exactly those bytes and the delimiter off the buffer and leaves the bytes after
\* the delimiter in it; the calls after a decode error go on with the following
\* messages of the stream, each at its own place: none is lost and none is
\* shifted.
C20_DecodeErrorConsumesOneMessage ==
    /\ [][\A t \in Threads :
             LET nl_index == Find(recv_buffer)
             IN  (pc[t] = "r_check" /\ nl_index # -1 /\ pc'[t] # pc[t]
                    /\ ~IsUtf8(Take(recv_buffer, nl_index)))
                    => /\ result'[t] = Raise("DecodeError")
                       /\ recv_buffer' = Drop(recv_buffer, nl_index + 1)
                       /\ rcvd' = rcvd]_vars
    /\ [](\A i \in 1..Len(rlog) :
             rlog[i].kind = "DecodeError"
                => /\ ~IsUtf8(SplitLines(rcvd)[i])
                   /\ \A j \in (i + 1)..Len(rlog) :
                         IsUtf8(SplitLines(rcvd)[j])
                            => rlog[j] = Res("msg", Decode(SplitLines(rcvd)[j]))
                   /\ recv_buffer \o Pending = Rest(rcvd, Len(rlog)))

\* C20 witness: the lines 0xA9 and "A" arrived in one chunk; the first call failed
\* with the decode error and the second one returned "A".
C20_Witness ==
    /\ reads = << <<169, NL, 65, NL>> >>
    /\ hist = << Raise("DecodeError"), Res("msg", <<65>>) >>
    /\ recv_buffer = <<>>

====
